---- MODULE Spec2Model ----
(***************************************************************************)
(* Model of the hourglass simulation of src/src/hourglass.rs and of the    *)
(* way src/src/main.rs drives it.                                          *)
(*                                                                         *)
(* A Grid<T> is kept as the code keeps it: a flat row-major sequence of    *)
(* width * height cells, cell (x, y) at offset y * width + x (the TLA+     *)
(* sequence is 1-based, hence the + 1 in CellIndex).  Coordinates are      *)
(* usize values: they are never negative, and a subtraction that would go  *)
(* below zero either panics (overflow checks on, the debug profile) or     *)
(* wraps to a huge value (overflow checks off, the release profile).       *)
(***************************************************************************)
EXTENDS Integers, Naturals, Sequences, FiniteSets, TLC

VARIABLES
    width,          \* Grid::width of both grids (the constructor argument before New)
    height,         \* Grid::height of both grids
    layout,         \* Hourglass::layout.cells, flat row-major
    state,          \* Hourglass::state.cells, flat row-major
    pinched,        \* Hourglass::pinched
    pc,             \* "start": not constructed, "ready": between calls,
                    \* "settling": inside the loop of settle_state,
                    \* "panicked": an assertion or overflow check aborted the program
    overflowChecks, \* build profile: TRUE = arithmetic overflow panics, FALSE = it wraps
    driver,         \* who calls the hourglass: "api" (any caller of the public
                    \* operations but settle_state) or "main" (the sequence of
                    \* main.rs)
    mainPc,         \* where main is: "fill", "pinch", "settle", "loop" (the head of
                    \* a pass of its loop), "frame" (the advance calls of the
                    \* pass); "none" for the others
    inactive_for,   \* local of settle_state
    steps,          \* local of settle_state
    lastOp,         \* the operation that produced this state
    ret,            \* the number that operation returned (advance, settle_state)
    ok,             \* the boolean that operation returned (try_place_sand)
    arg,            \* the argument of that operation: the offset of pos for
                    \* try_place_sand, the numerator of fullness for
                    \* fill_with_sand_from_top, 0 for the others
    draws,          \* number of values the last advance took from the random source
    occupiedSeen,   \* number of cells that held a grain when the last advance
                    \* came to them
    movedTwice,     \* the last advance moved a grain out of a cell that had
                    \* received one earlier in the same call
    argFullness,    \* main's args.fullness, as a number of 2^FullnessBits-ths (0 for the others)
    argStepsPerFrame, \* main's args.steps_per_frame (0 for the others)
    frameStep,      \* number of advance calls made in the current pass of main's loop
    loopTicks,      \* number of advance calls made by the loop of main
    seedings        \* number of fill_with_sand_from_top and try_place_sand calls so far

vars == <<width, height, layout, state, pinched, pc, overflowChecks, driver, mainPc,
          inactive_for, steps, lastOp, ret, ok, arg, draws, occupiedSeen, movedTwice,
          argFullness, argStepsPerFrame, frameStep, loopTicks, seedings>>

----------------------------------------------------------------------------
(* Bounds of the model *)

MaxWidth == 7           \* SpecNew: constructor arguments 0..MaxWidth
MaxHeight == 12         \* SpecNew: constructor arguments 0..MaxHeight
FullnessBits == 2       \* fullness ranges over k / 2^FullnessBits, k in 0..2^FullnessBits
MaxSeedings == 2        \* at most this many fill_with_sand_from_top and
                        \* try_place_sand calls in a run
MaxLoopTicks == 2       \* the loop of main is followed for this many advance calls
MaxSettleSteps == 96    \* settle_state is followed for this many advance calls

----------------------------------------------------------------------------
(* Program constants *)

MAX_CELL_SAND == 2
SETTLE_STREAK == 16
\* Stand-in for usize::MAX: the value 0 - 1 wraps to when overflow checks are
\* off.  It is only ever compared with grid dimensions.
USIZE_MAX == 2147483647

Empty == <<"Empty">>
Wall(ch) == <<"Wall", ch>>
IsWall(cell) == cell[1] = "Wall"

----------------------------------------------------------------------------
(* Grid<T> *)

GridNew(w, h, v) == [i \in 1..(w * h) |-> v]

IsInBounds(w, h, x, y) == x < w /\ y < h

CellIndex(w, x, y) == (y * w) + x + 1

\* a reversal that leaves the last cell where it is
GridFlipAllButLast(cells) ==
    [i \in 1..Len(cells) |-> IF i = Len(cells) THEN cells[i] ELSE cells[Len(cells) - i]]

\* cells.reverse()
GridFlip(cells) == [i \in 1..Len(cells) |-> cells[Len(cells) + 1 - i]]

\* wrapping usize subtraction (overflow checks off)
WrappingSub(a, b) == IF a >= b THEN a - b ELSE USIZE_MAX - (b - a) + 1

----------------------------------------------------------------------------
(* Hourglass::populate_layout: the writes, in program order *)

Write(x, y, ch) == [x |-> x, y |-> y, cell |-> Wall(ch)]

SlopeLength(w) == w \div 2
StraightLength(w, h) == (h \div 2) - SlopeLength(w)

Equalses(w, h) ==
    [j \in 1..(2 * w) |->
        LET i == (j - 1) \div 2 IN
        IF (j - 1) % 2 = 0 THEN Write(i, 0, "=") ELSE Write(i, h - 1, "=")]

Pipes(w, h) ==
    LET n == IF StraightLength(w, h) > 1 THEN StraightLength(w, h) - 1 ELSE 0 IN
    [j \in 1..(4 * n) |->
        LET i == 1 + ((j - 1) \div 4)
            k == (j - 1) % 4 IN
        CASE k = 0 -> Write(0, i, "|")
          [] k = 1 -> Write(w - 1, i, "|")
          [] k = 2 -> Write(0, h - 1 - i, "|")
          [] k = 3 -> Write(w - 1, h - 1 - i, "|")]

Slashes(w, h) ==
    LET sl == SlopeLength(w)
        st == StraightLength(w, h) IN
    [j \in 1..(4 * sl) |->
        LET i == (j - 1) \div 4
            k == (j - 1) % 4 IN
        CASE k = 0 -> Write(i, st + i, "\\")
          [] k = 1 -> Write(w - 1 - i, st + i, "/")
          [] k = 2 -> Write(sl - 1 - i, h - st - sl + i, "/")
          [] k = 3 -> Write(sl + 1 + i, h - st - sl + i, "\\")]

\* middle pipes with the right one forgotten
MiddlePipesLeftOnly(w, h) ==
    IF h % 2 = 1
    THEN << Write(WrappingSub(w \div 2, 1), h \div 2, "|") >>
    ELSE << >>

\* width / 2 - 1 goes below zero when width = 1: with overflow checks the
\* subtraction panics, without them it wraps and the indexing assertion fails.
MiddlePipes(w, h) ==
    IF h % 2 = 1
    THEN << Write(WrappingSub(w \div 2, 1), h \div 2, "|"),
            Write((w \div 2) + 1, h \div 2, "|") >>
    ELSE << >>

LayoutWrites(w, h) == Equalses(w, h) \o Pipes(w, h) \o Slashes(w, h) \o MiddlePipes(w, h)

\* IndexMut: assert!(is_in_bounds(index)), then the store
RECURSIVE ApplyWrites(_, _, _, _)
ApplyWrites(cells, w, h, writes) ==
    IF writes = << >> THEN [panic |-> FALSE, cells |-> cells]
    ELSE LET wr == Head(writes) IN
         IF ~IsInBounds(w, h, wr.x, wr.y) THEN [panic |-> TRUE, cells |-> cells]
         ELSE ApplyWrites([cells EXCEPT ![CellIndex(w, wr.x, wr.y)] = wr.cell],
                          w, h, Tail(writes))

populate_layout(w, h) == ApplyWrites(GridNew(w, h, Empty), w, h, LayoutWrites(w, h))

\* The two assertions of Hourglass::new
NewAccepts(w, h) == (w % 2 = 1) /\ (h > w)

\* Hourglass::new: the instance, or a panic
HourglassNew(w, h) ==
    IF ~NewAccepts(w, h) THEN [panic |-> TRUE, cells |-> << >>]
    ELSE populate_layout(w, h)

----------------------------------------------------------------------------
(* Hourglass::get_interior_positions *)

\* one row: the Empty cells between the first non-Empty cell and the next one
RECURSIVE ScanRow(_, _, _, _, _, _)
ScanRow(lay, w, y, x, interior_reached, acc) ==
    IF x >= w THEN acc
    ELSE LET empty_here == (lay[CellIndex(w, x, y)] = Empty) IN
         IF interior_reached
         THEN IF empty_here
              THEN ScanRow(lay, w, y, x + 1, TRUE, Append(acc, <<x, y>>))
              ELSE acc
         ELSE ScanRow(lay, w, y, x + 1, ~empty_here, acc)

RECURSIVE ScanRows(_, _, _, _)
ScanRows(lay, w, h, y) ==
    IF y >= h THEN << >>
    ELSE ScanRow(lay, w, y, 0, FALSE, << >>) \o ScanRows(lay, w, h, y + 1)

get_interior_positions(lay, w, h) == ScanRows(lay, w, h, 0)

----------------------------------------------------------------------------
(* Hourglass::is_solid_at, try_place_sand, fill_with_sand_from_top, counting *)

\* solidity that forgets the walls
is_solid_at_sand_only(lay, cells, w, h, x, y) ==
    IF ~IsInBounds(w, h, x, y) THEN TRUE
    ELSE cells[CellIndex(w, x, y)] >= MAX_CELL_SAND

is_solid_at(lay, cells, w, h, x, y) ==
    IF ~IsInBounds(w, h, x, y) THEN TRUE
    ELSE IF IsWall(lay[CellIndex(w, x, y)]) THEN TRUE
    ELSE cells[CellIndex(w, x, y)] >= MAX_CELL_SAND

\* a placement that also accepts a grain on a full cell
try_place_sand_on_full(cells, w, x, y) ==
    IF cells[CellIndex(w, x, y)] <= MAX_CELL_SAND
    THEN [cells |-> [cells EXCEPT ![CellIndex(w, x, y)] = @ + 1], ok |-> TRUE]
    ELSE [cells |-> cells, ok |-> FALSE]

\* the sand grid after try_place_sand((x, y)) and the value returned
try_place_sand(cells, w, x, y) ==
    IF cells[CellIndex(w, x, y)] < MAX_CELL_SAND
    THEN [cells |-> [cells EXCEPT ![CellIndex(w, x, y)] = @ + 1], ok |-> TRUE]
    ELSE [cells |-> cells, ok |-> FALSE]

\* a minimum that always answers its first argument
MinFirst(a, b) == a

\* std::cmp::min
Min(a, b) == IF a < b THEN a ELSE b

\* (((positions.len() * MAX_CELL_SAND) as f32) * fullness) as usize, for the
\* fullness num / den with den a power of two: the product is exact in f32
\* and the cast truncates.
GrainBudget(n, num, den) == (n * MAX_CELL_SAND * num) \div den

RECURSIVE FillLoop(_, _, _, _)
FillLoop(cells, w, positions, grains_left) ==
    IF positions = << >> THEN cells
    ELSE LET pos == Head(positions)
             grains == Min(grains_left, MAX_CELL_SAND)
             filled == [cells EXCEPT ![CellIndex(w, pos[1], pos[2])] = @ + grains]
         IN IF grains_left - grains = 0 THEN filled
            ELSE FillLoop(filled, w, Tail(positions), grains_left - grains)

fill_with_sand_from_top(lay, cells, w, h, num, den) ==
    LET positions == get_interior_positions(lay, w, h) IN
    FillLoop(cells, w, positions, GrainBudget(Len(positions), num, den))

RECURSIVE SumCells(_, _, _)
SumCells(cells, from, to) ==
    IF from > to THEN 0 ELSE cells[from] + SumCells(cells, from + 1, to)

\* count_sand(0..width, y0..y1): whole rows y0 .. y1 - 1
count_rows(cells, w, y0, y1) == SumCells(cells, (y0 * w) + 1, y1 * w)

\* a top half that takes in the middle row of an odd height
count_top_sand_with_middle(cells, w, h) == count_rows(cells, w, 0, (h + 1) \div 2)

count_top_sand(cells, w, h) == count_rows(cells, w, 0, h \div 2)

\* a bottom half that starts below the middle row of an odd height
count_bottom_sand_below_middle(cells, w, h) == count_rows(cells, w, (h + 1) \div 2, h)

count_bottom_sand(cells, w, h) == count_rows(cells, w, h \div 2, h)

\* Display::fmt: the character written for a cell
RenderCell(cell, sand) ==
    IF cell = Empty
    THEN CASE sand = 0 -> " "
           [] sand = 1 -> "."
           [] sand = 2 -> ":"
           [] OTHER -> "?"
    ELSE cell[2]

----------------------------------------------------------------------------
(* Hourglass::can_flow and the body of the loop of Hourglass::advance *)

\* the match on rng.random_range(0..3)
DirOf(d) == CASE d = 0 -> "Down" [] d = 1 -> "Right" [] d = 2 -> "Left"

\* mutant of LateralFlow: any free neighbour will do for a resting grain
LateralFlowAnyFreeNeighbour(lay, cells, w, h, x, y, nx) ==
    /\ is_solid_at(lay, cells, w, h, x, y + 1)
    /\ ~is_solid_at(lay, cells, w, h, nx, y)

\* the Right and Left arms of can_flow; nx is the neighbour's column
LateralFlow(lay, cells, w, h, x, y, nx) ==
    LET solid_below == is_solid_at(lay, cells, w, h, x, y + 1)
        sand_here == cells[CellIndex(w, x, y)]
    IN /\ solid_below
       /\ ~is_solid_at(lay, cells, w, h, nx, y)
       /\ \/ (sand_here > 1 /\ sand_here - 1 > cells[CellIndex(w, nx, y)])
          \/ (~is_solid_at(lay, cells, w, h, nx, y) /\ ~is_solid_at(lay, cells, w, h, nx, y + 1))

can_flow(lay, cells, w, h, x, y, dir) ==
    LET solid_below == is_solid_at(lay, cells, w, h, x, y + 1)
        sand_here == cells[CellIndex(w, x, y)]
    IN IF sand_here < 1 THEN FALSE
       ELSE CASE dir = "Down" -> (y < h - 1) /\ ~solid_below
              [] dir = "Right" -> LateralFlow(lay, cells, w, h, x, y, x + 1)
              [] dir = "Left" -> LateralFlow(lay, cells, w, h, x, y, WrappingSub(x, 1))

\* the Left arm evaluates pos.0 - 1 once solid_below holds: below zero in column 0
CanFlowOverflows(lay, cells, w, h, x, y, dir) ==
    /\ cells[CellIndex(w, x, y)] >= 1
    /\ dir = "Left"
    /\ is_solid_at(lay, cells, w, h, x, y + 1)
    /\ x < 1

\* mutant of SkipDownThisRow: the pinch holds back the Down moves of every row
SkipDownEveryRow(pin, h, y) == pin

\* mutant of SkipDownThisRow: the row below the neck instead of the row above it
SkipDownRowBelow(pin, h, y) == pin /\ (y = h \div 2)

\* advance: skip_down_this_row, for row y of a glass of height h
SkipDownThisRow(pin, h, y) == pin /\ (y = (h \div 2) - 1)

\* mutant of Destination: a Down move that goes to the cell above
DestinationUpward(x, y, dir) ==
    CASE dir = "Down" -> <<x, WrappingSub(y, 1)>>
      [] dir = "Right" -> <<x + 1, y>>
      [] dir = "Left" -> <<WrappingSub(x, 1), y>>

\* the cell a move goes to
Destination(x, y, dir) ==
    CASE dir = "Down" -> <<x, y + 1>>
      [] dir = "Right" -> <<x + 1, y>>
      [] dir = "Left" -> <<WrappingSub(x, 1), y>>

\* mutant of MoveGrain: a move that is counted and not carried out
MoveGrainNowhere(cells, from, to) == cells

\* mutant of MoveGrain: the debit without the credit
MoveGrainDebitOnly(cells, from, to) == [cells EXCEPT ![from] = @ - 1]

\* the debit and the credit of a move
MoveGrain(cells, from, to) == [cells EXCEPT ![from] = @ - 1, ![to] = @ + 1]

\* What advance has done so far: the sand grid, the move counter, whether it
\* panicked, how many values it has taken from the random source, how many
\* of the cells it came to held a grain, the cells
\* that have received a grain, and whether one of them went on to be the
\* source of a move.
AdvanceStart(cells) ==
    [cells |-> cells, moves |-> 0, panic |-> FALSE, draws |-> 0, occupied |-> 0,
     received |-> {}, twice |-> FALSE]

\* mutant of DrawDirection: a direction is drawn for occupied cells only
DrawForOccupied(rec, here) ==
    IF rec.cells[here] >= 1
    THEN [rec EXCEPT !.draws = @ + 1, !.occupied = @ + 1]
    ELSE rec

\* rng.random_range(0..3) at the cell at offset here: one more value taken
\* from the random source, whether the cell holds a grain or not
DrawDirection(rec, here) ==
    [rec EXCEPT !.draws = @ + 1,
                !.occupied = IF rec.cells[here] >= 1 THEN @ + 1 ELSE @]

\* One iteration of the inner loop, at cell (x, y), the random source giving d.
\* pin is the pinch flag, oc the build's overflow checks.
CellStep(rec, lay, w, h, pin, oc, x, y, d) ==
    LET here == CellIndex(w, x, y)
        dir == DirOf(d)
        skip_down_this_row == SkipDownThisRow(pin, h, y)
    IN IF rec.panic THEN rec
       ELSE IF ~(rec.cells[here] <= MAX_CELL_SAND) THEN [rec EXCEPT !.panic = TRUE]
       ELSE LET drawn == DrawDirection(rec, here) IN
            IF skip_down_this_row /\ dir = "Down" THEN drawn
            ELSE IF oc /\ CanFlowOverflows(lay, rec.cells, w, h, x, y, dir)
                 THEN [drawn EXCEPT !.panic = TRUE]
            ELSE IF can_flow(lay, rec.cells, w, h, x, y, dir)
                 THEN LET dst == Destination(x, y, dir) IN
                      IF ~IsInBounds(w, h, dst[1], dst[2])
                      THEN [drawn EXCEPT !.panic = TRUE]
                      ELSE [drawn EXCEPT
                              !.cells = MoveGrain(@, here, CellIndex(w, dst[1], dst[2])),
                              !.moves = @ + 1,
                              !.received = @ \cup {CellIndex(w, dst[1], dst[2])},
                              !.twice = @ \/ (here \in rec.received)]
            ELSE drawn

\* the k-th cell advance visits: rows bottom to top, columns left to right
VisitX(w, h, k) == (k - 1) % w
VisitY(w, h, k) == (h - 1) - ((k - 1) \div w)

\* The two loops of advance from the k-th cell on, for every value the random
\* source may give: choice[k] is the set of values it may give at the k-th cell.
RECURSIVE AdvanceLoop(_, _, _, _, _, _, _, _)
AdvanceLoop(recs, k, lay, w, h, pin, oc, choice) ==
    IF k > w * h \/ recs = {} THEN recs
    ELSE AdvanceLoop(
            UNION {{CellStep(r, lay, w, h, pin, oc, VisitX(w, h, k), VisitY(w, h, k), d)
                        : d \in choice[k]} : r \in recs},
            k + 1, lay, w, h, pin, oc, choice)

\* advance with a random source that gives dirs[k] at the k-th cell
advance(lay, cells, w, h, pin, oc, dirs) ==
    CHOOSE r \in AdvanceLoop({AdvanceStart(cells)}, 1, lay, w, h, pin, oc,
                             [k \in 1..(w * h) |-> {dirs[k]}]) : TRUE

\* the random source of the model: rng.random_range(0..3) may give any of its
\* values at every cell, each draw independent of the others
DrawValues == 0..2
DrawChoices(w, h) == [k \in 1..(w * h) |-> DrawValues]

\* every outcome of one advance call
AdvanceOutcomes(lay, cells, w, h, pin, oc) ==
    AdvanceLoop({AdvanceStart(cells)}, 1, lay, w, h, pin, oc, DrawChoices(w, h))

----------------------------------------------------------------------------
(* The hourglasses and callers of the model *)

\* any caller of the public operations
ApiGlasses == {<<3, 4>>, <<3, 5>>}
\* main.rs
MainGlasses == {<<3, 5>>, <<5, 6>>}

FullnessDen == 2 ^ FullnessBits

\* main's --steps-per-frame (main.rs:36-37; the default is 2)
StepsPerFrame == {2}

Starts ==
    {[w |-> g[1], h |-> g[2], driver |-> "api", fullness |-> 0, frame |-> 0]
        : g \in ApiGlasses}
    \cup {[w |-> g[1], h |-> g[2], driver |-> "main", fullness |-> k, frame |-> n]
        : g \in MainGlasses, k \in 0..FullnessDen, n \in StepsPerFrame}

InitWith(start) ==
    /\ width = start.w
    /\ height = start.h
    /\ driver = start.driver
    /\ argFullness = start.fullness
    /\ argStepsPerFrame = start.frame
    /\ frameStep = 0
    /\ loopTicks = 0
    /\ overflowChecks \in BOOLEAN
    /\ layout = << >>
    /\ state = << >>
    /\ pinched = FALSE
    /\ pc = "start"
    /\ mainPc = "none"
    /\ inactive_for = 0
    /\ steps = 0
    /\ lastOp = "init"
    /\ ret = 0
    /\ ok = FALSE
    /\ arg = 0
    /\ draws = 0
    /\ occupiedSeen = 0
    /\ movedTwice = FALSE
    /\ seedings = 0

Init == \E start \in Starts : InitWith(start)

\* every pair of constructor arguments up to the bounds
InitNew ==
    \E w \in 0..MaxWidth, h \in 0..MaxHeight :
        InitWith([w |-> w, h |-> h, driver |-> "api", fullness |-> 0, frame |-> 0])

----------------------------------------------------------------------------
(* The operations *)

ApiReady == pc = "ready" /\ driver = "api"
MainAt(label) == pc = "ready" /\ driver = "main" /\ mainPc = label

\* an operation that returns nothing and draws nothing
NoReturn ==
    ret' = 0 /\ ok' = FALSE /\ draws' = 0 /\ occupiedSeen' = 0 /\ movedTwice' = FALSE
NoArgument == arg' = 0

\* what belongs to main and to the build, which no operation of the hourglass touches
MainArgs == <<argFullness, argStepsPerFrame, width, height, overflowChecks, driver>>

\* Hourglass::new (main.rs:153 for main)
New ==
    /\ pc = "start"
    /\ LET r == HourglassNew(width, height) IN
       IF r.panic
       THEN /\ pc' = "panicked"
            /\ UNCHANGED <<layout, state, mainPc>>
       ELSE /\ pc' = "ready"
            /\ layout' = r.cells
            /\ state' = GridNew(width, height, 0)
            /\ mainPc' = IF driver = "main" THEN "fill" ELSE "none"
    /\ pinched' = FALSE
    /\ lastOp' = "new"
    /\ NoArgument
    /\ NoReturn
    /\ UNCHANGED <<MainArgs, loopTicks, frameStep, inactive_for, steps, seedings>>

\* fill_with_sand_from_top(k / 2^FullnessBits)
Fill ==
    /\ ApiReady
    /\ seedings < MaxSeedings
    /\ \E k \in 0..FullnessDen :
          /\ state' = fill_with_sand_from_top(layout, state, width, height, k, FullnessDen)
          /\ arg' = k
    /\ seedings' = seedings + 1
    /\ lastOp' = "fill"
    /\ NoReturn
    /\ UNCHANGED <<MainArgs, loopTicks, frameStep, layout, pinched, pc, mainPc,
                   inactive_for, steps>>

\* main.rs:154: fill_with_sand_from_top(args.fullness / 2.0)
MainFill ==
    /\ MainAt("fill")
    /\ state' = fill_with_sand_from_top(layout, state, width, height,
                                        argFullness, 2 * FullnessDen)
    /\ arg' = argFullness
    /\ seedings' = seedings + 1
    /\ mainPc' = "pinch"
    /\ lastOp' = "fill"
    /\ NoReturn
    /\ UNCHANGED <<MainArgs, loopTicks, frameStep, layout, pinched, pc, inactive_for, steps>>

\* try_place_sand(pos), pos in bounds
Place ==
    /\ ApiReady
    /\ seedings < MaxSeedings
    /\ \E x \in 0..(width - 1), y \in 0..(height - 1) :
          LET r == try_place_sand(state, width, x, y) IN
          /\ state' = r.cells
          /\ ok' = r.ok
          /\ arg' = CellIndex(width, x, y)
    /\ seedings' = seedings + 1
    /\ lastOp' = "place"
    /\ ret' = 0 /\ draws' = 0 /\ occupiedSeen' = 0 /\ movedTwice' = FALSE
    /\ UNCHANGED <<MainArgs, loopTicks, frameStep, layout, pinched, pc, mainPc,
                   inactive_for, steps>>

\* pinch (main.rs:155 for main)
Pinch ==
    /\ ApiReady \/ MainAt("pinch")
    /\ pinched' = TRUE
    /\ mainPc' = IF driver = "main" THEN "settle" ELSE mainPc
    /\ lastOp' = "pinch"
    /\ NoArgument
    /\ NoReturn
    /\ UNCHANGED <<MainArgs, loopTicks, frameStep, layout, state, pc, inactive_for,
                   steps, seedings>>

\* unpinch
Unpinch ==
    /\ ApiReady
    /\ pinched' = FALSE
    /\ lastOp' = "unpinch"
    /\ NoArgument
    /\ NoReturn
    /\ UNCHANGED <<MainArgs, loopTicks, frameStep, layout, state, pc, mainPc,
                   inactive_for, steps, seedings>>

\* flip
Flip ==
    /\ ApiReady
    /\ state' = GridFlip(state)
    /\ layout' = GridFlip(layout)
    /\ lastOp' = "flip"
    /\ NoArgument
    /\ NoReturn
    /\ UNCHANGED <<MainArgs, loopTicks, frameStep, pinched, pc, mainPc, inactive_for,
                   steps, seedings>>

\* The clock of main's loop: time_progress (main.rs:162-165) is elapsed time
\* over the length of the time range, here c / 2 for c in TimeProgressHalves.
TimeProgressHalves == 0..3

\* sand_progress < time_progress (main.rs:167-175), time_progress being c / 2
SandBehindTime(cells, w, h, c) ==
    LET top_sand == count_top_sand(cells, w, h)
        bottom_sand == count_bottom_sand(cells, w, h)
    IN IF top_sand + bottom_sand # 0
       THEN 2 * bottom_sand < c * (top_sand + bottom_sand)
       ELSE 0 < c

\* the head of one pass of main's loop (main.rs:159-179): the glass is
\* unpinched when the sand is behind the time and pinched otherwise; the
\* advance calls of the pass follow
LoopPinchOrUnpinch ==
    /\ MainAt("loop")
    /\ \E c \in TimeProgressHalves :
          IF SandBehindTime(state, width, height, c)
          THEN pinched' = FALSE /\ lastOp' = "unpinch"
          ELSE pinched' = TRUE /\ lastOp' = "pinch"
    /\ mainPc' = "frame"
    /\ frameStep' = 0
    /\ NoArgument
    /\ NoReturn
    /\ UNCHANGED <<MainArgs, loopTicks, layout, state, pc, inactive_for, steps, seedings>>

\* advance (main.rs:186-188 for main: steps_per_frame calls in a pass, the
\* last of them ending the pass)
Advance ==
    /\ ApiReady \/ (MainAt("frame") /\ loopTicks < MaxLoopTicks)
    /\ \E r \in AdvanceOutcomes(layout, state, width, height, pinched, overflowChecks) :
          /\ state' = r.cells
          /\ ret' = r.moves
          /\ draws' = r.draws
          /\ occupiedSeen' = r.occupied
          /\ movedTwice' = r.twice
          /\ pc' = IF r.panic THEN "panicked" ELSE pc
    /\ ok' = FALSE
    /\ loopTicks' = IF driver = "main" THEN loopTicks + 1 ELSE loopTicks
    /\ frameStep' = IF driver = "main" THEN frameStep + 1 ELSE frameStep
    /\ mainPc' = IF driver = "main" /\ frameStep + 1 = argStepsPerFrame
                 THEN "loop" ELSE mainPc
    /\ lastOp' = "advance"
    /\ NoArgument
    /\ UNCHANGED <<MainArgs, layout, pinched, inactive_for, steps, seedings>>

\* settle_state is entered (main.rs:156)
SettleBegin ==
    /\ MainAt("settle")
    /\ pc' = "settling"
    /\ steps' = 0
    /\ inactive_for' = 0
    /\ lastOp' = "settle_begin"
    /\ NoArgument
    /\ NoReturn
    /\ UNCHANGED <<MainArgs, loopTicks, frameStep, layout, state, pinched, mainPc, seedings>>

\* one iteration of the loop of settle_state
SettleTick ==
    /\ pc = "settling"
    /\ inactive_for < SETTLE_STREAK
    /\ steps < MaxSettleSteps
    /\ \E r \in AdvanceOutcomes(layout, state, width, height, pinched, overflowChecks) :
          /\ state' = r.cells
          /\ ret' = r.moves
          /\ draws' = r.draws
          /\ occupiedSeen' = r.occupied
          /\ movedTwice' = r.twice
          /\ pc' = IF r.panic THEN "panicked" ELSE pc
          /\ inactive_for' = IF r.panic THEN inactive_for
                             ELSE IF r.moves = 0 THEN inactive_for + 1 ELSE 0
          /\ steps' = IF r.panic THEN steps ELSE steps + 1
    /\ ok' = FALSE
    /\ lastOp' = "tick"
    /\ NoArgument
    /\ UNCHANGED <<MainArgs, loopTicks, frameStep, layout, pinched, mainPc, seedings>>

\* settle_state returns the number of advance calls it has made
SettleReturn ==
    /\ pc = "settling"
    /\ ~(inactive_for < SETTLE_STREAK)
    /\ pc' = "ready"
    /\ mainPc' = IF driver = "main" THEN "loop" ELSE mainPc
    /\ ret' = steps
    /\ steps' = 0
    /\ inactive_for' = 0
    /\ lastOp' = "settle_state"
    /\ NoArgument
    /\ ok' = FALSE /\ draws' = 0 /\ occupiedSeen' = 0 /\ movedTwice' = FALSE
    /\ UNCHANGED <<MainArgs, loopTicks, frameStep, layout, state, pinched, seedings>>

Next ==
    \/ New
    \/ Fill
    \/ MainFill
    \/ Place
    \/ Pinch
    \/ Unpinch
    \/ LoopPinchOrUnpinch
    \/ Flip
    \/ Advance
    \/ SettleBegin
    \/ SettleTick
    \/ SettleReturn

Spec == Init /\ [][Next]_vars

\* construction alone, over every pair of arguments, and flipping what it built
NextNew == New \/ Flip

SpecNew == InitNew /\ [][NextNew]_vars

\* main.rs alone: construction, seeding, pinch, settle_state, then the loop
InitMain == \E start \in {st \in Starts : st.driver = "main"} : InitWith(start)

NextMain ==
    \/ New
    \/ MainFill
    \/ Pinch
    \/ LoopPinchOrUnpinch
    \/ Advance
    \/ SettleBegin
    \/ SettleTick
    \/ SettleReturn

SpecMain == InitMain /\ [][NextMain]_vars

\* main.rs up to the return of settle_state (main.rs:153-156)
NextSettle ==
    \/ New
    \/ MainFill
    \/ Pinch
    \/ SettleBegin
    \/ SettleTick
    \/ SettleReturn

\* The loop of settle_state goes on to its next iteration while the streak is
\* short (hourglass.rs:233): this is WF_vars(SettleTick), written out.
\* SettleTick is enabled exactly where its guards hold, advance always
\* having an outcome, and its steps are the steps that set lastOp to "tick",
\* each of which changes steps or pc.
SettleTickFair ==
    \/ []<>~(pc = "settling" /\ inactive_for < SETTLE_STREAK /\ steps < MaxSettleSteps)
    \/ []<><<lastOp' = "tick">>_vars

\* settle_state returns once it has left its loop (hourglass.rs:244)
SpecSettle ==
    InitMain /\ [][NextSettle]_vars /\ SettleTickFair /\ WF_vars(SettleReturn)

----------------------------------------------------------------------------
(* What the claims speak of *)

\* the sum of all state cells
TotalSand(cells) == SumCells(cells, 1, Len(cells))

\* the step just taken was one advance call (called directly or by settle_state)
AdvanceCalled == lastOp' \in {"advance", "tick"}

----------------------------------------------------------------------------
\* C1: every advance call, whatever it draws and whether the glass is pinched
\* or not, leaves the total number of grains as it found it.
C1_GrainsConserved ==
    [][AdvanceCalled => TotalSand(state') = TotalSand(state)]_vars

\* an unpinched advance call has moved two grains at once
C1_Witness ==
    /\ lastOp = "advance"
    /\ ~pinched
    /\ ret >= 2
    /\ TotalSand(state) >= 3

----------------------------------------------------------------------------
\* C2: in every state reached through the public operations every state cell
\* holds between 0 and MAX_CELL_SAND grains, so that the assertion at the
\* start of advance never fails.
C2_CellsWithinRange ==
    (pc # "start") => \A i \in DOMAIN state : state[i] \in 0..MAX_CELL_SAND

----------------------------------------------------------------------------
\* C3: while the glass is pinched, an advance call leaves count_top_sand and
\* count_bottom_sand each as it found them; and in main, where the glass is
\* pinched right after the fill, both are still what the fill made them all
\* through settle_state and when it returns.
C3_StepKeepsHalves ==
    (pinched /\ AdvanceCalled) =>
        /\ count_top_sand(state', width, height) = count_top_sand(state, width, height)
        /\ count_bottom_sand(state', width, height) = count_bottom_sand(state, width, height)

\* the sand grid main's fill leaves on the new glass
MainFilled ==
    fill_with_sand_from_top(layout, GridNew(width, height, 0), width, height,
                            argFullness, 2 * FullnessDen)

C3_SettleKeepsHalves ==
    (driver = "main" /\ (pc = "settling" \/ lastOp = "settle_state")) =>
        /\ count_top_sand(state, width, height) = count_top_sand(MainFilled, width, height)
        /\ count_bottom_sand(state, width, height) = count_bottom_sand(MainFilled, width, height)

C3_PinchKeepsHalves == [][C3_StepKeepsHalves]_vars /\ []C3_SettleKeepsHalves

\* the 5x6 glass of main, filled at 0.375, has settled under the pinch with
\* grains moved, and the bottom half is still empty
C3_Witness ==
    /\ driver = "main" /\ width = 5 /\ height = 6
    /\ lastOp = "settle_state"
    /\ pinched
    /\ state # MainFilled
    /\ count_top_sand(state, width, height) = 6
    /\ count_bottom_sand(state, width, height) = 0

----------------------------------------------------------------------------
(* The flow rule as the specification words it, read off the current state *)

SandAt(x, y) == state[CellIndex(width, x, y)]

SolidCell(x, y) ==
    \/ x \notin 0..(width - 1)
    \/ y \notin 0..(height - 1)
    \/ IsWall(layout[CellIndex(width, x, y)])
    \/ SandAt(x, y) >= MAX_CELL_SAND

MayFall(x, y) ==
    /\ y < height - 1
    /\ ~SolidCell(x, y + 1)
    /\ ~(pinched /\ y = (height \div 2) - 1)

MaySlide(x, y, nx) ==
    /\ SolidCell(x, y + 1)
    /\ ~SolidCell(nx, y)
    /\ \/ (SandAt(x, y) > 1 /\ SandAt(x, y) - 1 > SandAt(nx, y))
       \/ ~SolidCell(nx, y + 1)

\* no grain has anywhere to go
Quiescent ==
    \A x \in 0..(width - 1), y \in 0..(height - 1) :
        SandAt(x, y) >= 1 =>
            ~MayFall(x, y) /\ ~MaySlide(x, y, x + 1) /\ ~MaySlide(x, y, x - 1)

----------------------------------------------------------------------------
(* The glass of the claim: 7 by 12, filled at 0.375 and pinched *)
C4_DefaultLayout == HourglassNew(7, 12).cells

C4_DefaultFilled ==
    fill_with_sand_from_top(C4_DefaultLayout, GridNew(7, 12, 0), 7, 12, 3, 8)

\* advance on that glass as the fill left it, every cell drawing d
C4_DefaultTick(d) ==
    advance(C4_DefaultLayout, C4_DefaultFilled, 7, 12, TRUE, overflowChecks,
            [k \in 1..(7 * 12) |-> d])

\* where main is followed: the first advance call after settle_state, with
\* the pinch engaged, moves nothing
C4_FirstAdvanceIdle ==
    [][(driver = "main" /\ loopTicks = 0 /\ pinched /\ lastOp' = "advance")
          => ret' = 0]_vars

\* on the 7x12 glass: if a value drawn at every cell moves nothing on the
\* fill (so that 16 such ticks make settle_state return there), then no
\* value drawn at every cell of the next tick moves anything either
C4_DefaultGlassQuiet ==
    \A d \in DrawValues :
        (C4_DefaultTick(d).moves = 0) =>
            \A e \in DrawValues : C4_DefaultTick(e).moves = 0

\* C4: once settle_state has returned on a pinched glass that main has
\* filled (the 7x12 glass at 0.375 among them), the next advance call, the
\* pinch still engaged, moves nothing, whatever is drawn.
C4_SettledIsQuiet == C4_FirstAdvanceIdle /\ []C4_DefaultGlassQuiet

----------------------------------------------------------------------------
\* C5: settle_state, entered on the glass that main has constructed, seeded
\* with fill_with_sand_from_top and pinched, returns: no run of it goes on
\* moving grains for ever, whatever is drawn.
C5_SettleReturns == (pc = "settling") ~> (lastOp = "settle_state")

\* settle_state has returned on the 5x6 glass after the two grains of the
\* fill have slid off (1, 1) one after the other and dropped onto (2, 2)
C5_Witness ==
    /\ width = 5 /\ height = 6
    /\ lastOp = "settle_state"
    /\ pc = "ready"
    /\ ret >= SETTLE_STREAK + 4
    /\ MainFilled[CellIndex(width, 1, 1)] = 2
    /\ TotalSand(state) = 2
    /\ SandAt(2, 2) = 2

----------------------------------------------------------------------------
\* C6: try_place_sand on a cell in bounds that holds 2 grains returns false
\* and leaves the sand, the layout and the pinch flag as they were; on a cell
\* that holds fewer it returns true, adds one grain to that cell and leaves
\* every other cell, the layout and the pinch flag as they were.
C6_PlaceOrRefuse ==
    [][(lastOp' = "place") =>
          /\ layout' = layout
          /\ pinched' = pinched
          /\ IF state[arg'] >= 2
             THEN ~ok' /\ state' = state
             ELSE /\ ok'
                  /\ state'[arg'] = state[arg'] + 1
                  /\ \A i \in DOMAIN state : i # arg' => state'[i] = state[i]
                  /\ DOMAIN state' = DOMAIN state]_vars

\* a placement on a full cell has been refused
C6_Witness ==
    /\ lastOp = "place"
    /\ ~ok
    /\ state[arg] = MAX_CELL_SAND

----------------------------------------------------------------------------
\* C7, as claimed: Hourglass::new(width, height) returns an instance exactly
\* when width is odd and height > width, and fails fatally otherwise.
C7_NewReturnsIffValid ==
    (lastOp = "new") => ((pc = "ready") <=> (width % 2 = 1 /\ height > width))

----------------------------------------------------------------------------
(* The layout cell at (x, y) *)
LayoutAt(x, y) == layout[CellIndex(width, x, y)]

\* C8: the layout of every constructed hourglass is symmetric: a cell is a
\* Wall iff its left-right mirror is, iff its top-bottom mirror is; a cell
\* equals the cell opposite to it through the centre, variant and glyph; and
\* flipping the layout grid gives the same grid.
C8_LayoutSymmetric ==
    (pc = "ready") =>
        /\ \A x \in 0..(width - 1), y \in 0..(height - 1) :
              /\ IsWall(LayoutAt(x, y)) <=> IsWall(LayoutAt(width - 1 - x, y))
              /\ IsWall(LayoutAt(x, y)) <=> IsWall(LayoutAt(x, height - 1 - y))
              /\ LayoutAt(x, y) = LayoutAt(width - 1 - x, height - 1 - y)
        /\ GridFlip(layout) = layout

\* a 5x7 hourglass, with slashes and middle pipes, has been flipped
C8_Witness ==
    /\ pc = "ready"
    /\ width = 5 /\ height = 7
    /\ lastOp = "flip"
    /\ LayoutAt(1, 3) = Wall("|")
    /\ LayoutAt(1, 2) = Wall("\\")

----------------------------------------------------------------------------
\* C9: one flip moves the content of every position (x, y) of both grids to
\* (W-1-x, H-1-y) and keeps the dimensions and the pinch flag; flipping what
\* it leaves once more gives back the layout and the sand it started from.
C9_FlipMirrorsAndUndoes ==
    [][(lastOp' = "flip") =>
          /\ width' = width /\ height' = height /\ pinched' = pinched
          /\ Len(state') = width * height /\ Len(layout') = width * height
          /\ \A x \in 0..(width - 1), y \in 0..(height - 1) :
                /\ state'[CellIndex(width, width - 1 - x, height - 1 - y)]
                      = state[CellIndex(width, x, y)]
                /\ layout'[CellIndex(width, width - 1 - x, height - 1 - y)]
                      = layout[CellIndex(width, x, y)]
          /\ GridFlip(state') = state
          /\ GridFlip(layout') = layout]_vars

\* a pinched glass whose sand is not symmetric has been flipped
C9_Witness ==
    /\ lastOp = "flip"
    /\ pinched
    /\ TotalSand(state) >= 3
    /\ state # GridFlip(state)

----------------------------------------------------------------------------
(* What the fill is claimed to leave: budget grains over the positions in order *)
C10_Budget(n, num, den) == (n * 2 * num) \div den

C10_Filled(positions, budget) ==
    [i \in 1..(width * height) |->
        IF \E j \in 1..Len(positions) : CellIndex(width, positions[j][1], positions[j][2]) = i
        THEN LET j == CHOOSE j \in 1..Len(positions) :
                          CellIndex(width, positions[j][1], positions[j][2]) = i
             IN IF j <= budget \div 2 THEN 2
                ELSE IF j = (budget \div 2) + 1 THEN budget % 2
                ELSE 0
        ELSE 0]

\* C10: the first fill_with_sand_from_top on a new hourglass with n interior
\* positions and budget B = floor(n * 2 * fullness) leaves the first
\* floor(B / 2) interior positions with 2 grains, the next one with B mod 2
\* and every other cell with 0, B grains in all.
C10_FillInOrder ==
    [][(lastOp' = "fill" /\ seedings = 0) =>
          LET positions == get_interior_positions(layout, width, height)
              den == IF driver = "main" THEN 2 * FullnessDen ELSE FullnessDen
              budget == C10_Budget(Len(positions), arg', den)
          IN /\ state' = C10_Filled(positions, budget)
             /\ TotalSand(state') = budget
             /\ budget <= 2 * Len(positions)]_vars

\* a first fill with an odd budget has left one grain on the position after
\* the full ones
C10_Witness ==
    /\ lastOp = "fill"
    /\ seedings = 1
    /\ TotalSand(state) = 3
    /\ \E i \in DOMAIN state : state[i] = 1

----------------------------------------------------------------------------
\* C11: in every state of a constructed hourglass, of even or odd height,
\* count_top_sand() + count_bottom_sand() is the sum of all state cells.
C11_HalvesCoverAll ==
    (pc # "start" /\ state # << >>) =>
        count_top_sand(state, width, height) + count_bottom_sand(state, width, height)
            = TotalSand(state)

\* a glass of odd height carries sand in its middle row and in both halves
C11_Witness ==
    /\ height % 2 = 1
    /\ pc = "ready"
    /\ count_rows(state, width, height \div 2, (height \div 2) + 1) >= 1
    /\ count_top_sand(state, width, height) >= 1
    /\ count_rows(state, width, (height \div 2) + 1, height) >= 1

----------------------------------------------------------------------------
\* C12, as claimed: within one advance call no cell that has received a grain
\* earlier in the call is afterwards the source of a move.
C12_NoGrainMovedTwice ==
    [][AdvanceCalled => ~movedTwice']_vars

----------------------------------------------------------------------------
(* The flow rule as the specification words it, on a sand grid in the making *)

C13_Solid(cells, x, y) ==
    \/ x \notin 0..(width - 1)
    \/ y \notin 0..(height - 1)
    \/ IsWall(layout[CellIndex(width, x, y)])
    \/ cells[CellIndex(width, x, y)] >= 2

C13_Slides(cells, x, y, nx) ==
    /\ C13_Solid(cells, x, y + 1)
    /\ ~C13_Solid(cells, nx, y)
    /\ \/ (cells[CellIndex(width, x, y)] = 2 /\ cells[CellIndex(width, nx, y)] = 0)
       \/ ~C13_Solid(cells, nx, y + 1)

\* d: 0 is Down, 1 is Right, 2 is Left
C13_Legal(cells, x, y, d) ==
    CASE d = 0 -> y # height - 1 /\ ~C13_Solid(cells, x, y + 1)
      [] d = 1 -> C13_Slides(cells, x, y, x + 1)
      [] d = 2 -> C13_Slides(cells, x, y, x - 1)

C13_Moves(cells, x, y, d) ==
    /\ cells[CellIndex(width, x, y)] >= 1
    /\ ~(pinched /\ d = 0 /\ y = (height \div 2) - 1)
    /\ C13_Legal(cells, x, y, d)

C13_Neighbour(x, y, d) ==
    CASE d = 0 -> CellIndex(width, x, y + 1)
      [] d = 1 -> CellIndex(width, x + 1, y)
      [] d = 2 -> CellIndex(width, x - 1, y)

\* the grid and the count of moves after cell (x, y) has drawn d
C13_Cell(run, x, y, d) ==
    IF C13_Moves(run[1], x, y, d)
    THEN << [run[1] EXCEPT ![CellIndex(width, x, y)] = @ - 1,
                           ![C13_Neighbour(x, y, d)] = @ + 1],
            run[2] + 1 >>
    ELSE run

\* every grid and count of moves the rule allows for one pass over the cells
RECURSIVE C13_Pass(_, _, _)
C13_Pass(runs, k, choice) ==
    IF k > width * height \/ runs = {} THEN runs
    ELSE C13_Pass(
            UNION {{C13_Cell(run, VisitX(width, height, k), VisitY(width, height, k), d)
                        : d \in choice[k]} : run \in runs},
            k + 1, choice)

C13_Allowed ==
    C13_Pass({<<state, 0>>}, 1, DrawChoices(width, height))

\* what advance can return and leave, where it does not abort
C13_Produced(outcomes) == {<<r.cells, r.moves>> : r \in {o \in outcomes : ~o.panic}}

C13_Aborts(outcomes) == \E o \in outcomes : o.panic

C13_InRange == \A i \in DOMAIN state : state[i] \in 0..MAX_CELL_SAND

\* the body of the loop of advance, at cell (x, y) of the current grid with d
\* drawn, moves a grain exactly where the rule moves one, and moves it alike
C13_CellByRule ==
    \A x \in 0..(width - 1), y \in 0..(height - 1), d \in DrawValues :
        LET r == CellStep(AdvanceStart(state), layout, width, height, pinched,
                          overflowChecks, x, y, d)
        IN ~r.panic =>
              /\ (r.moves = 1) <=> C13_Moves(state, x, y, d)
              /\ (r.moves = 0) <=> ~C13_Moves(state, x, y, d)
              /\ <<r.cells, r.moves>> = C13_Cell(<<state, 0>>, x, y, d)

\* C13: wherever advance can be called on cells within range, each cell it
\* processes moves a grain exactly when the cell holds one, the drawn
\* direction is not a Down the pinch suppresses, and the direction is legal
\* by the flow rule on the grid of that moment; a move takes one grain from
\* the cell to the adjacent cell in that direction; and advance returns the
\* number of moves: what it returns and leaves is what the rule allows.
C13_MovesByRule ==
    []((pc \in {"ready", "settling"} /\ C13_InRange) =>
          LET outcomes == AdvanceOutcomes(layout, state, width, height, pinched,
                                          overflowChecks)
          IN /\ C13_CellByRule
             /\ C13_Produced(outcomes) \subseteq C13_Allowed
             /\ ~C13_Aborts(outcomes) => C13_Allowed \subseteq C13_Produced(outcomes))

\* the first tick on main's pinched 5x6 glass has slid one of the two grains
\* of (1, 1) to (2, 1), where the pinch-free Down was not drawn
C13_Witness ==
    /\ lastOp = "tick"
    /\ width = 5 /\ height = 6
    /\ pinched
    /\ ret = 1
    /\ TotalSand(state) = 2
    /\ SandAt(1, 1) = 1
    /\ SandAt(2, 1) = 1

----------------------------------------------------------------------------
\* C14, as claimed: advance, called on cells within range, never computes a
\* coordinate below zero and never reaches outside a grid, so that neither
\* the overflow check on x - 1 nor the bounds assertion of the grids aborts it.
C14_AdvanceStaysInside ==
    [][(AdvanceCalled /\ C13_InRange) => pc' # "panicked"]_vars

----------------------------------------------------------------------------
(* Where the grains are *)

InteriorCells(lay) ==
    LET positions == get_interior_positions(lay, width, height)
    IN {CellIndex(width, positions[j][1], positions[j][2]) : j \in 1..Len(positions)}

\* every grain is on an interior position and shows in the rendering
C15_Inside(lay, cells) ==
    LET inside == InteriorCells(lay)
    IN \A i \in {j \in DOMAIN cells : cells[j] >= 1} :
          /\ i \in inside
          /\ RenderCell(lay[i], cells[i]) \in {".", ":", "?"}

\* C15: from a new hourglass, fill_with_sand_from_top, advance, pinch, unpinch
\* and flip (and settle_state) keep every grain on an interior position, where
\* the rendering shows it: each of them, applied where the grains are inside,
\* leaves them inside, and in main, which never calls try_place_sand, they
\* are inside throughout.
C15_GrainsStayInside ==
    /\ [][(pc = "ready" \/ pc = "settling") /\ lastOp' # "place" /\ C15_Inside(layout, state)
              => C15_Inside(layout', state')]_vars
    /\ []((driver = "main" /\ pc # "start" /\ state # << >>) => C15_Inside(layout, state))

\* in main's loop grains have run through the open neck into the bottom half
C15_Witness ==
    /\ driver = "main"
    /\ lastOp = "advance"
    /\ ~pinched
    /\ ret >= 1
    /\ count_bottom_sand(state, width, height) >= 1
    /\ count_top_sand(state, width, height) >= 1
    /\ C15_Inside(layout, state)

----------------------------------------------------------------------------
\* C16: an advance call that returns, returns 0 exactly when it leaves the
\* sand as it found it: the moves of one call never undo one another.
C16_ZeroIffUnchanged ==
    [][(AdvanceCalled /\ pc' # "panicked") => ((ret' = 0) <=> (state' = state))]_vars

\* an advance call has returned 0 although a grain had somewhere to go
C16_Witness ==
    /\ lastOp = "advance"
    /\ pc = "ready"
    /\ ret = 0
    /\ TotalSand(state) >= 2
    /\ ~Quiescent

----------------------------------------------------------------------------
\* C17, as claimed: an advance call that returns has taken from the random
\* source one value for each cell that held a grain when it came to it, and
\* none for the cells that held none.
C17_DrawsForOccupiedOnly ==
    [][(AdvanceCalled /\ pc' # "panicked") => draws' = occupiedSeen']_vars

\* C17, amended: an advance call that returns has taken from the random source
\* one value for each cell of the grid, whether the cell held a grain or not:
\* width * height values in all.
C17_DrawsForEveryCell ==
    [][(AdvanceCalled /\ pc' # "panicked") => draws' = width * height]_vars

\* an advance call has come to cells with grains and to cells without, and
\* has drawn for all of them
C17_Witness ==
    /\ lastOp = "advance"
    /\ pc = "ready"
    /\ occupiedSeen >= 1
    /\ occupiedSeen < width * height
    /\ draws = width * height

----------------------------------------------------------------------------
(* The sum over the grains of the row each is in *)
RECURSIVE C18_Depth(_, _)
C18_Depth(cells, i) ==
    IF i > Len(cells) THEN 0
    ELSE (cells[i] * ((i - 1) \div width)) + C18_Depth(cells, i + 1)

\* C18: no advance call moves a grain upward: count_bottom_sand does not
\* decrease, count_top_sand does not increase, and no grain ends in a row
\* above the one it was in, whatever the pinch setting and the draws; so it
\* is across any sequence of advance calls without a flip in between.
C18_NeverUpward ==
    [][AdvanceCalled =>
          /\ count_bottom_sand(state', width, height) >= count_bottom_sand(state, width, height)
          /\ count_top_sand(state', width, height) <= count_top_sand(state, width, height)
          /\ C18_Depth(state', 1) >= C18_Depth(state, 1)
          /\ C18_Depth(state', 1) <= C18_Depth(state, 1) + ret']_vars

\* two grains of main's fill have crossed the open neck in the loop
C18_Witness ==
    /\ driver = "main"
    /\ lastOp = "advance"
    /\ loopTicks >= 1
    /\ count_bottom_sand(MainFilled, width, height) = 0
    /\ count_bottom_sand(state, width, height) >= 2

----------------------------------------------------------------------------
\* C19, as claimed: flip exchanges the halves: count_top_sand after the flip
\* is count_bottom_sand before it, and count_bottom_sand after it is
\* count_top_sand before it, for even and odd heights.
C19_FlipSwapsHalves ==
    [][(lastOp' = "flip") =>
          /\ count_top_sand(state', width, height) = count_bottom_sand(state, width, height)
          /\ count_bottom_sand(state', width, height) = count_top_sand(state, width, height)]_vars

\* the grains of the middle row of an odd height (none for an even height)
C19_Middle(cells) ==
    IF height % 2 = 1
    THEN count_rows(cells, width, height \div 2, (height \div 2) + 1)
    ELSE 0

\* C19, amended: flip exchanges the halves but for the middle row of an odd
\* height, which the split at row height / 2 counts with the bottom half
\* before the flip and after it.
C19_FlipSwapsButMiddle ==
    [][(lastOp' = "flip") =>
          /\ count_top_sand(state', width, height)
                = count_bottom_sand(state, width, height) - C19_Middle(state)
          /\ count_bottom_sand(state', width, height)
                = count_top_sand(state, width, height) + C19_Middle(state)
          /\ C19_Middle(state') = C19_Middle(state)]_vars

\* a glass of odd height has been flipped with sand in its middle row
C19_Witness ==
    /\ lastOp = "flip"
    /\ height % 2 = 1
    /\ C19_Middle(state) >= 1
    /\ count_top_sand(state, width, height) >= 1

----------------------------------------------------------------------------
\* what each operation does to the pinch flag and, for pinch and unpinch, to
\* the grids
C20_FlagStep ==
    /\ (lastOp' = "new" /\ pc' = "ready") => ~pinched'
    /\ (lastOp' = "pinch") => (pinched' /\ layout' = layout /\ state' = state)
    /\ (lastOp' = "unpinch") => (~pinched' /\ layout' = layout /\ state' = state)
    /\ (lastOp' \notin {"new", "pinch", "unpinch"}) => (pinched' = pinched)

\* the body of the loop of advance at cell (x, y) with d drawn, pinched or not
C20_CellStep(pin, x, y, d) ==
    CellStep(AdvanceStart(state), layout, width, height, pin, overflowChecks, x, y, d)

\* on the current grids the pinch makes no difference to any cell but for a
\* Down drawn in row height / 2 - 1, which it leaves without a move
C20_OnlyNeckDown ==
    \A x \in 0..(width - 1), y \in 0..(height - 1), d \in DrawValues :
        IF d = 0 /\ y = (height \div 2) - 1
        THEN /\ C20_CellStep(TRUE, x, y, d).moves = 0
             /\ C20_CellStep(TRUE, x, y, d).cells = state
        ELSE C20_CellStep(TRUE, x, y, d) = C20_CellStep(FALSE, x, y, d)

\* C20: a new hourglass is unpinched; pinch sets the flag and unpinch clears
\* it, whatever it was, and both leave the two grids alone; no other
\* operation changes the flag; and the flag bears on advance only through
\* the Down moves out of row height / 2 - 1, which it suppresses.
C20_PinchIsTwoState ==
    /\ [][C20_FlagStep]_vars
    /\ []((pc \in {"ready", "settling"}) => C20_OnlyNeckDown)

\* main has cleared the flag it had set, with sand in the glass
C20_Witness ==
    /\ driver = "main"
    /\ lastOp = "unpinch"
    /\ ~pinched
    /\ TotalSand(state) >= 1

====
